---- MODULE Spec2Model ----
(***************************************************************************)
(* A model of gdal_boots/geometry.py: the GeoJSON builder and serializer,  *)
(* the coordinate transformer, the validity repairer and the resolution    *)
(* calculator.  Each public function is one action; the calls it makes     *)
(* into the GDAL/OGR bindings are operators that return the outcomes the   *)
(* bindings can produce.                                                   *)
(***************************************************************************)
EXTENDS Integers, Sequences, FiniteSets, TLC

VARIABLES
    useExceptions,  \* the bindings' process-wide mode: errors raise (gdal.UseExceptions())
    lastErrorMsg,   \* the bindings' process-wide last error message
    geom,           \* the OGR geometry object the caller holds
    gj,             \* the builder and serializer calls made so far
    ctLog,          \* every CoordinateTransformation constructed so far
    tr,             \* the last transform call: arguments, objects afterwards, outcome
    mv,             \* the last make_valid call: argument, library result, outcome
    un,             \* the last RasterDataset.union call: the datasets and the result
    md,             \* a raster dataset's metadata and the last operation on it
    chk,            \* the last check_maximum_one_value_not_none call
    res             \* the last calc_best_resolution_bbox call: arguments and outcome

vars == <<useExceptions, lastErrorMsg, geom, gj, ctLog, tr, mv, un, md, chk, res>>

(***************************************************************************)
(* Bounds of the model.                                                    *)
(***************************************************************************)
MaxCoord == 6       \* bounding-box coordinates range over 0..MaxCoord
MaxResNum == 3      \* resolutions are n/d with |n| <= MaxResNum ...
MaxResDen == 2      \* ... and 1 <= d <= MaxResDen
MaxOrd == 1         \* x ordinates of the input points: 0..MaxOrd steps from the first
MaxPrecision == 2   \* serializer precisions passed: None, 0..MaxPrecision
MaxCell == 2        \* repaired areas lie on the unit cells 0..MaxCell of one row
MaxMembers == 2     \* a repaired collection has 0..MaxMembers members
MaxExtent == 1      \* united rasters lie on the pixel columns and rows 0..MaxExtent
MaxArgs == 3        \* check_maximum_one_value_not_none takes 0..MaxArgs arguments
CoordDigits == 2    \* coordinates are fixed-point numbers with this many decimals

(***************************************************************************)
(* Exact rational arithmetic standing for Python's floats.  A rational is  *)
(* [n, d] in lowest terms with d > 0.                                      *)
(***************************************************************************)
Abs(i) == IF i < 0 THEN -i ELSE i

RECURSIVE GCD(_, _)
GCD(a, b) == IF b = 0 THEN a ELSE GCD(b, a % b)

Rat(n, d) ==
    LET g == GCD(Abs(n), Abs(d))
        s == IF d < 0 THEN -1 ELSE 1
    IN  [n |-> (s * n) \div g, d |-> (s * d) \div g]

RatInt(i) == [n |-> i, d |-> 1]

RatAdd(a, b) == Rat(a.n * b.d + b.n * a.d, a.d * b.d)

RatDiv(a, b) == Rat(a.n * b.d, a.d * b.n)

RatLeq(a, b) == a.n * b.d <= b.n * a.d

RatLt(a, b) == a.n * b.d < b.n * a.d

\* Python 3 round(x): the nearest integer, a tie going to the even one.
PyRound(q) ==
    LET f == q.n \div q.d
        r == q.n - f * q.d
    IN  IF 2 * r < q.d THEN f
        ELSE IF 2 * r > q.d THEN f + 1
        ELSE IF f % 2 = 0 THEN f ELSE f + 1

PyMax(a, b) == IF b > a THEN b ELSE a

(***************************************************************************)
(* Outcomes of a call: a returned value, or a raised exception with its    *)
(* message.                                                                *)
(***************************************************************************)
Raise(kind, msg, none) == [kind |-> kind, msg |-> msg, value |-> none]
Return(value) == [kind |-> "ok", msg |-> "", value |-> value]

(***************************************************************************)
(* The OGR geometry object: its type name, its own points (2 or 3          *)
(* components each) and its member geometries.                             *)
(***************************************************************************)
OgrGeometry(name) == [name |-> name, pts |-> <<>>, subs |-> <<>>]

NoGeometry == OgrGeometry("")

RECURSIVE MapSeq(_, _)
MapSeq(Op(_), s) == IF s = <<>> THEN <<>> ELSE <<Op(Head(s))>> \o MapSeq(Op, Tail(s))

\* Geometry.AddPoint_2D(x, y)
AddPoint_2D(geometry, point) == [geometry EXCEPT !.pts = Append(@, <<point[1], point[2]>>)]

\* Geometry.AddPoint(x, y, z=0): the binding's z defaults to 0 and the geometry
\* becomes 3D.
AddPoint(geometry, point) ==
    LET z == IF Len(point) >= 3 THEN point[3] ELSE 0
    IN  [geometry EXCEPT !.pts = Append(@, <<point[1], point[2], z>>)]

\* Geometry.AddGeometry(sub): appends a copy of sub.
AddGeometry(geometry, sub) == [geometry EXCEPT !.subs = Append(@, sub)]

GetGeometryName(geometry) == geometry.name
GetGeometryCount(geometry) == Len(geometry.subs)
GetGeometryRef(geometry, i) == geometry.subs[i]
GetPoints(geometry) == geometry.pts

\* Geometry.FlattenTo2D(): drops the third component everywhere, in place.
RECURSIVE FlattenTo2D(_)
FlattenTo2D(geometry) ==
    LET Flat(p) == <<p[1], p[2]>>
        Sub(g) == FlattenTo2D(g)
    IN  [name |-> geometry.name, pts |-> MapSeq(Flat, geometry.pts),
         subs |-> MapSeq(Sub, geometry.subs)]

\* Geometry.CloseRings(): appends the first point to every ring whose last point
\* differs from it, in place.
RECURSIVE CloseRings(_)
CloseRings(geometry) ==
    LET Sub(g) == CloseRings(g)
        p == geometry.pts
    IN  [name |-> geometry.name,
         pts |-> IF geometry.name = "LINEARRING" /\ Len(p) > 0 /\ p[1] # p[Len(p)]
                 THEN Append(p, p[1]) ELSE p,
         subs |-> MapSeq(Sub, geometry.subs)]

\* str.lower() on the type names and geometry names of the model.
Lower(name) ==
    CASE name \in {"Point", "POINT", "point"} -> "point"
      [] name \in {"LineString", "LINESTRING"} -> "linestring"
      [] name \in {"LinearRing", "LINEARRING"} -> "linearring"
      [] name \in {"Polygon", "POLYGON"} -> "polygon"
      [] name \in {"MultiPoint", "MULTIPOINT"} -> "multipoint"
      [] name \in {"MultiLineString", "MULTILINESTRING"} -> "multilinestring"
      [] name \in {"MultiPolygon", "MULTIPOLYGON"} -> "multipolygon"
      [] name \in {"GeometryCollection", "GEOMETRYCOLLECTION"} -> "geometrycollection"
      [] name = "Circle" -> "circle"
      [] OTHER -> name

(***************************************************************************)
(* GeoJSON values: a mapping with "type" and "coordinates" or "geometries" *)
(* (the absent key is the empty sequence).                                 *)
(***************************************************************************)
GeoJson(type, coordinates) == [type |-> type, coordinates |-> coordinates, geometries |-> <<>>]
GeoJsonCollection(geometries) ==
    [type |-> "GeometryCollection", coordinates |-> <<>>, geometries |-> geometries]
NoGeoJson == GeoJson("", <<>>)

(***************************************************************************)
(* GeometryBuilder (geometry.py:34-96).                                    *)
(***************************************************************************)
\* the create_* methods getattr can find
BuilderHandlers ==
    {"polygon", "linearring", "linestring", "multipolygon", "point",
     "geometrycollection", "multilinestring"}

_add_point(flatten, geometry, point) ==
    IF flatten THEN AddPoint_2D(geometry, point) ELSE AddPoint(geometry, point)

RECURSIVE _add_points(_, _, _)
_add_points(flatten, geometry, points) ==
    IF points = <<>> THEN geometry
    ELSE _add_points(flatten, _add_point(flatten, geometry, Head(points)), Tail(points))

create_linearring(flatten, coordinates) ==
    _add_points(flatten, OgrGeometry("LINEARRING"), coordinates)

create_linestring(flatten, coordinates) ==
    _add_points(flatten, OgrGeometry("LINESTRING"), coordinates)

create_point(flatten, coordinates) == _add_point(flatten, OgrGeometry("POINT"), coordinates)

create_polygon(flatten, coordinates) ==
    LET Ring(ring_coords) == create_linearring(flatten, ring_coords)
    IN  [OgrGeometry("POLYGON") EXCEPT !.subs = MapSeq(Ring, coordinates)]

create_multipolygon(flatten, coordinates) ==
    LET Poly(polygon_coordinates) == create_polygon(flatten, polygon_coordinates)
    IN  [OgrGeometry("MULTIPOLYGON") EXCEPT !.subs = MapSeq(Poly, coordinates)]

create_multilinestring(flatten, coordinates) ==
    LET Line(line_coordinates) == create_linestring(flatten, line_coordinates)
    IN  [OgrGeometry("MULTILINESTRING") EXCEPT !.subs = MapSeq(Line, coordinates)]

\* GeometryBuilder.create on a mapping: dispatch on the lower-cased type; a missing
\* handler raises ValueError; create_geometrycollection recurses into create and the
\* first member that raises ends the call.
RECURSIVE CreateMapping(_, _)
RECURSIVE create_geometrycollection(_, _, _)
create_geometrycollection(flatten, collection, geometries) ==
    IF geometries = <<>> THEN Return(collection)
    ELSE LET member == CreateMapping(flatten, Head(geometries))
         IN  IF member.kind # "ok" THEN member
             ELSE create_geometrycollection(flatten, AddGeometry(collection, member.value),
                                            Tail(geometries))

CreateMapping(flatten, geometry) ==
    LET geometry_type_lower == Lower(geometry.type)
    IN  IF geometry_type_lower \notin BuilderHandlers
        THEN Raise("ValueError", geometry_type_lower \o " is not supported", NoGeometry)
        ELSE CASE geometry_type_lower = "point" ->
                    Return(create_point(flatten, geometry.coordinates))
               [] geometry_type_lower = "linestring" ->
                    Return(create_linestring(flatten, geometry.coordinates))
               [] geometry_type_lower = "linearring" ->
                    Return(create_linearring(flatten, geometry.coordinates))
               [] geometry_type_lower = "polygon" ->
                    Return(create_polygon(flatten, geometry.coordinates))
               [] geometry_type_lower = "multipolygon" ->
                    Return(create_multipolygon(flatten, geometry.coordinates))
               [] geometry_type_lower = "multilinestring" ->
                    Return(create_multilinestring(flatten, geometry.coordinates))
               [] geometry_type_lower = "geometrycollection" ->
                    create_geometrycollection(flatten, OgrGeometry("GEOMETRYCOLLECTION"),
                                              geometry.geometries)

\* ogr.CreateGeometryFromJson(text) parses the text itself: it knows the GeoJSON
\* types (MultiPoint too), keeps every point's components as written, and yields
\* NULL for another type.
RECURSIVE CreateGeometryFromJson(_)
RECURSIVE FromJsonMembers(_)
FromJsonMembers(geometries) ==
    IF geometries = <<>> THEN <<>>
    ELSE LET member == CreateGeometryFromJson(Head(geometries))
         IN  (IF member = NoGeometry THEN <<>> ELSE <<member>>)
             \o FromJsonMembers(Tail(geometries))

CreateGeometryFromJson(geometry) ==
    LET t == Lower(geometry.type)
        Pt(p) == [OgrGeometry("POINT") EXCEPT !.pts = <<p>>]
        Line(c) == [OgrGeometry("LINESTRING") EXCEPT !.pts = c]
        Ring(c) == [OgrGeometry("LINEARRING") EXCEPT !.pts = c]
        Poly(c) == [OgrGeometry("POLYGON") EXCEPT !.subs = MapSeq(Ring, c)]
    IN  CASE t = "point" -> Pt(geometry.coordinates)
          [] t = "linestring" -> Line(geometry.coordinates)
          [] t = "polygon" -> Poly(geometry.coordinates)
          [] t = "multipoint" ->
                [OgrGeometry("MULTIPOINT") EXCEPT !.subs = MapSeq(Pt, geometry.coordinates)]
          [] t = "multilinestring" ->
                [OgrGeometry("MULTILINESTRING") EXCEPT
                    !.subs = MapSeq(Line, geometry.coordinates)]
          [] t = "multipolygon" ->
                [OgrGeometry("MULTIPOLYGON") EXCEPT
                    !.subs = MapSeq(Poly, geometry.coordinates)]
          [] t = "geometrycollection" ->
                [OgrGeometry("GEOMETRYCOLLECTION") EXCEPT
                    !.subs = FromJsonMembers(geometry.geometries)]
          [] OTHER -> NoGeometry

JsonDiagnostic == "Unsupported GeoJSON geometry type"

\* GeometryBuilder.create: a str goes to the bindings' parser (a NULL result is None,
\* or RuntimeError when the bindings raise), a mapping to the handlers.
Create(flatten, geometry, isStr, exceptions) ==
    IF isStr
    THEN LET parsed == CreateGeometryFromJson(geometry)
         IN  IF parsed = NoGeometry /\ exceptions
             THEN Raise("RuntimeError", JsonDiagnostic, NoGeometry)
             ELSE Return(parsed)
    ELSE CreateMapping(flatten, geometry)

(***************************************************************************)
(* GeometryGeoJson (geometry.py:99-139) and to_geojson (142-146).          *)
(***************************************************************************)
NoPrecision == -1       \* precision: int = None
DefaultPrecision == 15

RECURSIVE Pow10(_)
Pow10(k) == IF k = 0 THEN 1 ELSE 10 * Pow10(k - 1)

\* self.precision = precision or 15: None and 0 are both falsy.
InitPrecision(precision) ==
    IF precision = NoPrecision \/ precision = 0 THEN DefaultPrecision ELSE precision

\* round(c, ndigits) on a fixed-point coordinate (ties are exact in binary for the
\* coordinates of the model, so they go to the even digit).
PyRoundDigits(c, ndigits) ==
    IF ndigits >= CoordDigits THEN c
    ELSE LET unit == Pow10(CoordDigits - ndigits)
         IN  PyRound(Rat(c, unit)) * unit

_get_points(precision, geometry) ==
    LET RoundC(c) == PyRoundDigits(c, precision)
        RoundP(p) == MapSeq(RoundC, p)
    IN  MapSeq(RoundP, GetPoints(geometry))

\* the convert_* methods getattr can find
SerializerHandlers ==
    {"polygon", "multipolygon", "point", "geometrycollection", "multilinestring"}

convert_polygon(precision, geometry) ==
    LET Ring(ring) == _get_points(precision, ring)
    IN  GeoJson("Polygon", MapSeq(Ring, geometry.subs))

convert_multipolygon(precision, geometry) ==
    LET Poly(sub_geom) == convert_polygon(precision, sub_geom).coordinates
    IN  GeoJson("MultiPolygon", MapSeq(Poly, geometry.subs))

convert_point(precision, geometry) ==
    GeoJson("Point", _get_points(precision, geometry)[1])

convert_multilinestring(precision, geometry) ==
    LET Line(sub) == _get_points(precision, sub)
    IN  GeoJson("MultiLineString", MapSeq(Line, geometry.subs))

\* GeometryGeoJson.convert: dispatch on the lower-cased geometry name; a missing
\* handler raises ValueError; convert_geometrycollection recurses into convert.
RECURSIVE Convert(_, _)
RECURSIVE convert_geometrycollection(_, _, _)
convert_geometrycollection(precision, geometries, members) ==
    IF members = <<>> THEN Return(GeoJsonCollection(geometries))
    ELSE LET member == Convert(precision, Head(members))
         IN  IF member.kind # "ok" THEN member
             ELSE convert_geometrycollection(precision, Append(geometries, member.value),
                                             Tail(members))

Convert(precision, geometry) ==
    IF geometry = NoGeometry
    THEN Raise("AttributeError", "'NoneType' object has no attribute 'GetGeometryName'",
               NoGeoJson)
    ELSE
    LET geometry_type_lower == Lower(GetGeometryName(geometry))
    IN  IF geometry_type_lower \notin SerializerHandlers
        THEN Raise("ValueError", geometry_type_lower \o " is not supported", NoGeoJson)
        ELSE CASE geometry_type_lower = "point" ->
                    Return(convert_point(precision, geometry))
               [] geometry_type_lower = "polygon" ->
                    Return(convert_polygon(precision, geometry))
               [] geometry_type_lower = "multipolygon" ->
                    Return(convert_multipolygon(precision, geometry))
               [] geometry_type_lower = "multilinestring" ->
                    Return(convert_multilinestring(precision, geometry))
               [] geometry_type_lower = "geometrycollection" ->
                    convert_geometrycollection(precision, <<>>, geometry.subs)

\* to_geojson: FlattenTo2D acts on the caller's object; the pair is the object
\* afterwards and the outcome of the conversion.
ToGeojson(geometry, flatten, precision) ==
    LET flattened == IF flatten /\ geometry # NoGeometry THEN FlattenTo2D(geometry)
                     ELSE geometry
    IN  [geometry |-> flattened,
         out |-> IF flatten /\ geometry = NoGeometry
                 THEN Raise("AttributeError",
                            "'NoneType' object has no attribute 'FlattenTo2D'", NoGeoJson)
                 ELSE Convert(InitPrecision(precision), flattened)]

(***************************************************************************)
(* The GeoJSON inputs of the model: every shape below over every point p   *)
(* (2 or 3 components) and its neighbour q.  Coordinates are hundredths:   *)
(* 25 is 0.25.                                                             *)
(***************************************************************************)
Ords == {25 + 125 * k : k \in 0 .. MaxOrd}
Points == {<<x, 75>> : x \in Ords} \cup {<<x, 75, 50>> : x \in Ords}

Neighbour(p) == <<p[1] + 125, p[2]>> \o SubSeq(p, 3, Len(p))
RingOf(p, q) == <<p, q, <<p[1], p[2] + 125>> \o SubSeq(p, 3, Len(p)), p>>
OpenRingOf(p, q) == <<p, q, <<p[1], p[2] + 125>> \o SubSeq(p, 3, Len(p))>>

Shapes(p, q) ==
    << GeoJson("Point", p),
       GeoJson("LineString", <<p, q>>),
       GeoJson("Polygon", <<RingOf(p, q)>>),
       GeoJson("Polygon", <<RingOf(p, q), RingOf(q, p)>>),
       GeoJson("Polygon", <<OpenRingOf(p, q)>>),
       GeoJson("MultiLineString", <<<<p, q>>, <<q, p>>>>),
       GeoJson("MultiPolygon", << <<RingOf(p, q)>>, <<OpenRingOf(q, p)>> >>),
       GeoJsonCollection(<<GeoJson("Point", p), GeoJson("Polygon", <<RingOf(q, p)>>)>>),
       GeoJsonCollection(<<GeoJsonCollection(<<GeoJson("Point", p)>>),
                           GeoJson("MultiPolygon", << <<RingOf(p, q)>> >>)>>),
       GeoJsonCollection(<<GeoJson("Point", p), GeoJson("LineString", <<p, q>>)>>),
       GeoJsonCollection(<<GeoJson("Point", p), GeoJson("Circle", q)>>),
       GeoJson("Circle", p),
       GeoJson("LinearRing", RingOf(p, q)),
       GeoJson("MultiPoint", <<p, q>>),
       GeoJson("POINT", p) >>

NumShapes == Len(Shapes(<<0, 0>>, <<0, 0>>))

Precisions == {NoPrecision} \cup (0 .. MaxPrecision)

NoOutcome == [kind |-> "none", msg |-> "", value |-> NoGeoJson]

NoGj ==
    [step |-> "none", input |-> NoGeoJson, isStr |-> FALSE, flatten |-> FALSE,
     built |-> [kind |-> "none", msg |-> ""], op |-> "", opFlatten |-> FALSE,
     precision |-> NoPrecision, before |-> NoGeometry, out |-> NoOutcome]

\* gdal.UseExceptions(): from now on the bindings raise instead of returning error
\* codes and NULLs.
UseExceptions ==
    /\ ~useExceptions
    /\ useExceptions' = TRUE
    /\ UNCHANGED <<lastErrorMsg, geom, gj, ctLog, tr, mv, un, md, chk, res>>

\* The caller builds a geometry from GeoJSON (a mapping, or its text) and keeps it.
\* One build per behaviour: the builder reads nothing of the earlier state.
CallCreate ==
    /\ gj.step = "none"
    /\ \E k \in 1 .. NumShapes, p \in Points, flatten \in BOOLEAN, isStr \in BOOLEAN :
        LET geometry == Shapes(p, Neighbour(p))[k]
            built == Create(flatten, geometry, isStr, useExceptions)
        IN  /\ geom' = built.value
            /\ gj' = [NoGj EXCEPT !.step = "built", !.input = geometry, !.isStr = isStr,
                                  !.flatten = flatten,
                                  !.built = [kind |-> built.kind, msg |-> built.msg]]
            /\ lastErrorMsg' = IF isStr /\ built.value = NoGeometry
                               THEN JsonDiagnostic ELSE lastErrorMsg
    /\ UNCHANGED <<useExceptions, ctLog, tr, mv, un, md, chk, res>>

\* GeometryGeoJson(precision).convert(geom)
CallConvert ==
    /\ gj.step \in {"built", "converted"}
    /\ gj.built.kind = "ok"
    /\ \E precision \in Precisions :
        gj' = [gj EXCEPT !.step = "converted", !.op = "convert", !.opFlatten = FALSE,
                         !.precision = precision, !.before = geom,
                         !.out = Convert(InitPrecision(precision), geom)]
    /\ UNCHANGED <<useExceptions, lastErrorMsg, geom, ctLog, tr, mv, un, md, chk, res>>

\* to_geojson(geom, flatten, precision)
CallToGeojson ==
    /\ gj.step \in {"built", "converted"}
    /\ gj.built.kind = "ok"
    /\ \E flatten \in BOOLEAN, precision \in Precisions :
        LET r == ToGeojson(geom, flatten, precision)
        IN  /\ geom' = r.geometry
            /\ gj' = [gj EXCEPT !.step = "converted", !.op = "to_geojson",
                                !.opFlatten = flatten, !.precision = precision,
                                !.before = geom, !.out = r.out]
    /\ UNCHANGED <<useExceptions, lastErrorMsg, ctLog, tr, mv, un, md, chk, res>>

NextGeoJson == UseExceptions \/ CallCreate \/ CallConvert \/ CallToGeojson

(***************************************************************************)
(* Spatial references and the coordinate transformer (geometry.py:14-31,  *)
(* 149-183).  Objects live in a heap (a sequence indexed by address), so   *)
(* that a clone and the object it was cloned from are told apart.          *)
(***************************************************************************)
OAMS_TRADITIONAL_GIS_ORDER == "OAMS_TRADITIONAL_GIS_ORDER"
OAMS_AUTHORITY_COMPLIANT == "OAMS_AUTHORITY_COMPLIANT"

\* osr.SpatialReference(): nothing imported yet (epsg 0), the authority's axis order.
SpatialReference == [epsg |-> 0, strategy |-> OAMS_AUTHORITY_COMPLIANT]

NoSrs == [epsg |-> 0, strategy |-> ""]

\* the EPSG codes the database knows, and those whose authority order is lat, long
KnownEpsg == {4326, 3857}
LatLongEpsg == {4326}
EpsgCodes == KnownEpsg \cup {0}

ImportDiagnostic == "EPSG PCS/GCS code not found in EPSG support files"
TransformDiagnostic == "Cannot find coordinate operations between the spatial references"
NullPointer == "Received a NULL pointer."

\* obj.Clone(): a new object with the same content
CloneAlias(heap, addr) == [heap |-> heap, addr |-> addr]

Clone(heap, addr) == [heap |-> Append(heap, heap[addr]), addr |-> Len(heap) + 1]

\* srs.SetAxisMappingStrategy(strategy), in place
SetAxisMappingStrategy(heap, addr, strategy) == [heap EXCEPT ![addr].strategy = strategy]

\* osr.CoordinateTransformation(src, dst): NULL unless both references hold a CRS
CoordinateTransformation(src, dst) ==
    [valid |-> src.epsg \in KnownEpsg /\ dst.epsg \in KnownEpsg,
     src |-> src, dst |-> dst]

\* The projection of one point: the input is read in the source's axis order, the
\* output written in the target's; 4326 <-> 3857 is a scaling here (x by 2, y by 3),
\* the third component is kept.
ProjectPoint(ct, p) ==
    LET swapIn == ct.src.strategy = OAMS_AUTHORITY_COMPLIANT /\ ct.src.epsg \in LatLongEpsg
        swapOut == ct.dst.strategy = OAMS_AUTHORITY_COMPLIANT /\ ct.dst.epsg \in LatLongEpsg
        x == IF swapIn THEN p[2] ELSE p[1]
        y == IF swapIn THEN p[1] ELSE p[2]
        xy == IF ct.src.epsg = ct.dst.epsg THEN <<x, y>>
              ELSE IF ct.src.epsg \in LatLongEpsg THEN <<2 * x, 3 * y>>
              ELSE <<x \div 2, y \div 3>>
    IN  (IF swapOut THEN <<xy[2], xy[1]>> ELSE xy) \o SubSeq(p, 3, Len(p))

\* Geometry.Transform(ct), in place
RECURSIVE TransformGeometry(_, _)
TransformGeometry(geometry, ct) ==
    LET Pt(p) == ProjectPoint(ct, p)
        Sub(g) == TransformGeometry(g, ct)
    IN  [name |-> geometry.name, pts |-> MapSeq(Pt, geometry.pts),
         subs |-> MapSeq(Sub, geometry.subs)]

\* srs_from_epsg: ImportFromEPSG's error code is not looked at, so an unknown code
\* leaves the new reference empty unless the bindings raise.
srs_from_epsg(heap, epsg, exceptions) ==
    LET known == epsg \in KnownEpsg
        srs == [SpatialReference EXCEPT !.epsg = IF known THEN epsg ELSE 0]
    IN  IF ~known /\ exceptions
        THEN [heap |-> heap, ret |-> Raise("RuntimeError", ImportDiagnostic, 0),
              cts |-> {}, err |-> ImportDiagnostic]
        ELSE [heap |-> Append(heap, srs), ret |-> Return(Len(heap) + 1),
              cts |-> {}, err |-> IF known THEN "" ELSE ImportDiagnostic]

\* a clone left in the axis order of its original
NormalizedCloneNoAxis(heap, srs) == Clone(heap, srs)

\* from_srs = from_srs.Clone(); from_srs.SetAxisMappingStrategy(TRADITIONAL)
NormalizedClone(heap, srs) ==
    LET c == Clone(heap, srs)
    IN  [heap |-> SetAxisMappingStrategy(c.heap, c.addr, OAMS_TRADITIONAL_GIS_ORDER),
         addr |-> c.addr]

\* transform_by_srs: the heap afterwards, the returned address or the exception,
\* the transformations constructed, and the last error message set ("" if none).
transform_by_srs(heap, geometry, from_srs, to_srs, exceptions) ==
    LET f == NormalizedClone(heap, from_srs)
        t == NormalizedClone(f.heap, to_srs)
        transformation == CoordinateTransformation(t.heap[f.addr], t.heap[t.addr])
        result_geometry == Clone(t.heap, geometry)
    IN  IF ~transformation.valid /\ exceptions
        THEN [heap |-> t.heap, ret |-> Raise("RuntimeError", TransformDiagnostic, 0),
              cts |-> {transformation}, err |-> TransformDiagnostic]
        ELSE IF ~transformation.valid
        THEN [heap |-> result_geometry.heap, ret |-> Raise("ValueError", NullPointer, 0),
              cts |-> {transformation}, err |-> TransformDiagnostic]
        ELSE [heap |-> [result_geometry.heap EXCEPT ![result_geometry.addr] =
                            TransformGeometry(@, transformation)],
              ret |-> Return(result_geometry.addr),
              cts |-> {transformation}, err |-> ""]

\* transform: both references come from srs_from_epsg.
transform(heap, geometry, from_epsg, to_epsg, exceptions) ==
    LET from_srs == srs_from_epsg(heap, from_epsg, exceptions)
    IN  IF from_srs.ret.kind # "ok" THEN from_srs
        ELSE LET to_srs == srs_from_epsg(from_srs.heap, to_epsg, exceptions)
             IN  IF to_srs.ret.kind # "ok" THEN to_srs
                 ELSE LET r == transform_by_srs(to_srs.heap, geometry, from_srs.ret.value,
                                                to_srs.ret.value, exceptions)
                      IN  [r EXCEPT !.err = IF r.err # "" THEN r.err
                                            ELSE IF to_srs.err # "" THEN to_srs.err
                                            ELSE from_srs.err]

\* transform_geojson: build, transform, serialize with flatten=False.
transform_geojson(geometry, from_epsg, to_epsg, flatten, precision, exceptions) ==
    LET ogr_geometry == CreateMapping(flatten, geometry)
    IN  IF ogr_geometry.kind # "ok"
        THEN [out |-> Raise(ogr_geometry.kind, ogr_geometry.msg, NoGeoJson),
              cts |-> {}, err |-> ""]
        ELSE LET new_geometry == transform(<<ogr_geometry.value>>, 1, from_epsg, to_epsg,
                                           exceptions)
             IN  IF new_geometry.ret.kind # "ok"
                 THEN [out |-> Raise(new_geometry.ret.kind, new_geometry.ret.msg, NoGeoJson),
                       cts |-> new_geometry.cts, err |-> new_geometry.err]
                 ELSE [out |-> ToGeojson(new_geometry.heap[new_geometry.ret.value], FALSE,
                                         precision).out,
                       cts |-> new_geometry.cts, err |-> new_geometry.err]

\* SrsProxy(srs, epsg): srs is an address or 0 for None, epsg a code or -1 for None.
NoEpsg == -1

SrsProxy(heap, srs, epsg, exceptions) ==
    IF srs = 0 /\ epsg = NoEpsg
    THEN [heap |-> heap, ret |-> Raise("ValueError", "all parameters are None", 0),
          cts |-> {}, err |-> ""]
    ELSE IF srs = 0 THEN srs_from_epsg(heap, epsg, exceptions)
    ELSE [heap |-> heap, ret |-> Return(srs), cts |-> {}, err |-> ""]

\* GeometryProxy(geom, SrsProxy(..)).transform(SrsProxy(..)): the returned proxy
\* holds the transformed geometry and the target proxy's reference itself.
GeometryProxy_transform(heap, geometry, srs1, epsg1, srs2, epsg2, exceptions) ==
    LET own == SrsProxy(heap, srs1, epsg1, exceptions)
    IN  IF own.ret.kind # "ok" THEN own
        ELSE LET srs_proxy == SrsProxy(own.heap, srs2, epsg2, exceptions)
             IN  IF srs_proxy.ret.kind # "ok"
                 THEN [srs_proxy EXCEPT !.err = IF @ # "" THEN @ ELSE own.err]
                 ELSE LET r == transform_by_srs(srs_proxy.heap, geometry, own.ret.value,
                                                srs_proxy.ret.value, exceptions)
                      IN  [r EXCEPT !.err = IF r.err # "" THEN r.err
                                            ELSE IF srs_proxy.err # "" THEN srs_proxy.err
                                            ELSE own.err]

\* the spatial reference objects a caller may hold
CallerSrs ==
    {[epsg |-> e, strategy |-> st] :
        e \in EpsgCodes, st \in {OAMS_AUTHORITY_COMPLIANT, OAMS_TRADITIONAL_GIS_ORDER}}

NoTr ==
    [step |-> "none", op |-> "", geomBefore |-> NoGeometry,
     fromBefore |-> NoSrs, toBefore |-> NoSrs, fromAfter |-> NoSrs, toAfter |-> NoSrs,
     fromEpsg |-> NoEpsg, toEpsg |-> NoEpsg,
     ret |-> [kind |-> "none", msg |-> ""], retAddr |-> 0, retGeom |-> NoGeometry,
     out |-> NoOutcome, cts |-> {}, err |-> ""]

HasGeometry == gj.step # "none" /\ gj.built.kind = "ok" /\ geom # NoGeometry

\* What a call on the heap <<geom, from, to>> leaves behind.
AfterCall(op, r, fromBefore, toBefore, fromEpsg, toEpsg) ==
    /\ geom' = r.heap[1]
    /\ tr' = [NoTr EXCEPT !.step = "called", !.op = op, !.geomBefore = geom,
                          !.fromBefore = fromBefore, !.toBefore = toBefore,
                          !.fromAfter = r.heap[2], !.toAfter = r.heap[3],
                          !.fromEpsg = fromEpsg, !.toEpsg = toEpsg,
                          !.ret = [kind |-> r.ret.kind, msg |-> r.ret.msg],
                          !.retAddr = r.ret.value,
                          !.retGeom = IF r.ret.kind = "ok" THEN r.heap[r.ret.value]
                                      ELSE NoGeometry,
                          !.cts = r.cts, !.err = r.err]
    /\ ctLog' = ctLog \cup r.cts
    /\ lastErrorMsg' = IF r.err # "" THEN r.err ELSE lastErrorMsg

\* transform_by_srs(geom, from_srs, to_srs) on two references the caller holds
CallTransformBySrs ==
    /\ HasGeometry /\ tr.step = "none"
    /\ \E from_srs \in CallerSrs, to_srs \in CallerSrs :
        AfterCall("transform_by_srs",
                  transform_by_srs(<<geom, from_srs, to_srs>>, 1, 2, 3, useExceptions),
                  from_srs, to_srs, NoEpsg, NoEpsg)
    /\ UNCHANGED <<useExceptions, gj, mv, un, md, chk, res>>

\* transform(geom, from_epsg, to_epsg)
CallTransform ==
    /\ HasGeometry /\ tr.step = "none"
    /\ \E from_epsg \in EpsgCodes, to_epsg \in EpsgCodes :
        AfterCall("transform",
                  transform(<<geom, NoSrs, NoSrs>>, 1, from_epsg, to_epsg, useExceptions),
                  NoSrs, NoSrs, from_epsg, to_epsg)
    /\ UNCHANGED <<useExceptions, gj, mv, un, md, chk, res>>

\* the arguments a caller gives SrsProxy: a reference, an EPSG code, or neither
SrsProxyArgs ==
    {[srs |-> o, epsg |-> NoEpsg] : o \in CallerSrs}
        \cup {[srs |-> NoSrs, epsg |-> e] : e \in EpsgCodes \cup {NoEpsg}}

\* GeometryProxy(geom, SrsProxy(srs or epsg)).transform(SrsProxy(srs or epsg))
CallProxyTransform ==
    /\ HasGeometry /\ tr.step = "none"
    /\ \E a1 \in SrsProxyArgs, a2 \in SrsProxyArgs :
        AfterCall("GeometryProxy.transform",
                  GeometryProxy_transform(<<geom, a1.srs, a2.srs>>, 1,
                                          IF a1.srs # NoSrs THEN 2 ELSE 0, a1.epsg,
                                          IF a2.srs # NoSrs THEN 3 ELSE 0, a2.epsg,
                                          useExceptions),
                  a1.srs, a2.srs, a1.epsg, a2.epsg)
    /\ UNCHANGED <<useExceptions, gj, mv, un, md, chk, res>>

\* transform_geojson(geometry, from_epsg, to_epsg, flatten, precision)
CallTransformGeojson ==
    /\ gj.step = "none" /\ tr.step = "none"
    /\ \E k \in 1 .. NumShapes, p \in Points, flatten \in BOOLEAN,
          precision \in Precisions, from_epsg \in EpsgCodes, to_epsg \in EpsgCodes :
        LET geometry == Shapes(p, Neighbour(p))[k]
            r == transform_geojson(geometry, from_epsg, to_epsg, flatten, precision,
                                   useExceptions)
        IN  /\ gj' = [NoGj EXCEPT !.step = "given", !.input = geometry,
                                  !.flatten = flatten, !.precision = precision]
            /\ tr' = [NoTr EXCEPT !.step = "called", !.op = "transform_geojson",
                                  !.fromEpsg = from_epsg, !.toEpsg = to_epsg,
                                  !.ret = [kind |-> r.out.kind, msg |-> r.out.msg],
                                  !.out = r.out, !.cts = r.cts, !.err = r.err]
            /\ ctLog' = ctLog \cup r.cts
            /\ lastErrorMsg' = IF r.err # "" THEN r.err ELSE lastErrorMsg
    /\ UNCHANGED <<useExceptions, geom, mv, un, md, chk, res>>

NextTransform ==
    \/ UseExceptions
    \/ CallCreate
    \/ CallTransformBySrs
    \/ CallTransform
    \/ CallProxyTransform
    \/ CallTransformGeojson

(***************************************************************************)
(* The validity repairer (geometry.py:186-219).  What Geometry.MakeValid   *)
(* returns is the library's choice: the geometry itself, an area, a        *)
(* geometry of lower dimension, a collection of these, or nothing.  Areas  *)
(* are unions of unit cells of one row, so that Geometry.Union is computed *)
(* exactly.                                                                *)
(***************************************************************************)
MakeValidDiagnostic == "GEOS support not enabled."

RowCells == 0 .. MaxCell
Unit == Pow10(CoordDigits)

\* the rectangle over the cells i .. j
Rect(i, j) ==
    LET ring == << <<i * Unit, 0>>, <<(j + 1) * Unit, 0>>, <<(j + 1) * Unit, Unit>>,
                   <<i * Unit, Unit>>, <<i * Unit, 0>> >>
    IN  [OgrGeometry("POLYGON") EXCEPT
            !.subs = <<[OgrGeometry("LINEARRING") EXCEPT !.pts = ring]>>]

\* the cells an area covers
RECURSIVE Footprint(_)
Footprint(geometry) ==
    CASE geometry.name = "POLYGON" /\ geometry.subs # <<>> ->
            LET pts == geometry.subs[1].pts
                xs == {pts[n][1] : n \in 1 .. Len(pts)}
            IN  {k \in RowCells : \E a \in xs, b \in xs : a <= k * Unit /\ (k + 1) * Unit <= b}
      [] geometry.name = "MULTIPOLYGON" ->
            UNION {Footprint(geometry.subs[n]) : n \in 1 .. Len(geometry.subs)}
      [] OTHER -> {}

\* the maximal runs of adjacent cells of a footprint, from the left
RECURSIVE Runs(_)
Runs(cells) ==
    IF cells = {} THEN <<>>
    ELSE LET i == CHOOSE k \in cells : \A l \in cells : k <= l
             j == CHOOSE k \in cells :
                    /\ \A l \in i .. k : l \in cells
                    /\ k + 1 \notin cells
                    /\ k >= i
         IN  <<Rect(i, j)>> \o Runs(cells \ (i .. j))

\* the area over a footprint: one run is a POLYGON, several a MULTIPOLYGON
AreaOf(cells) ==
    LET runs == Runs(cells)
    IN  IF Len(runs) = 1 THEN runs[1]
        ELSE [OgrGeometry("MULTIPOLYGON") EXCEPT !.subs = runs]

\* Geometry.Union(other): areas merge where they touch or overlap; an area and a
\* line or point make a collection.
Union(geometry, other) ==
    IF other.name \in {"POLYGON", "MULTIPOLYGON"}
    THEN IF Footprint(geometry) = {} THEN other
         ELSE AreaOf(Footprint(geometry) \cup Footprint(other))
    ELSE IF Footprint(geometry) = {} THEN other
         ELSE [OgrGeometry("GEOMETRYCOLLECTION") EXCEPT !.subs = <<geometry, other>>]

\* what a repair can be made of
Areas == {AreaOf(cells) : cells \in SUBSET RowCells \ {{}}}
Remnants ==
    {[OgrGeometry("LINESTRING") EXCEPT !.pts = << <<0, 0>>, <<Unit, 0>> >>],
     [OgrGeometry("POINT") EXCEPT !.pts = << <<0, 0>> >>]}
Collections ==
    {[OgrGeometry("GEOMETRYCOLLECTION") EXCEPT !.subs = members] :
        members \in UNION {[1 .. n -> Areas \cup Remnants] : n \in 0 .. MaxMembers}}

\* the geometries Geometry.MakeValid() can return for an area that needed repair
MakeValidResults == Areas \cup Remnants \cup Collections

\* what the library does in one MakeValid call: it fails, finds the geometry valid,
\* or repairs it
LibraryOutcomes ==
    {[failed |-> TRUE, valid |-> FALSE, result |-> NoGeometry],
     [failed |-> FALSE, valid |-> TRUE, result |-> NoGeometry]}
    \cup {[failed |-> FALSE, valid |-> FALSE, result |-> g] : g \in MakeValidResults}

\* Geometry.MakeValid(): a valid geometry, and any that is not an area, comes back
\* as a copy; an invalid area comes back as the library's repair of it.  On failure
\* the library sets its last error and the bindings return None, or raise when
\* exceptions are on.
MakeValid(geometry, valid, result, failed, err, exceptions) ==
    IF failed
    THEN [out |-> IF exceptions
                  THEN Raise("RuntimeError", MakeValidDiagnostic, NoGeometry)
                  ELSE Return(NoGeometry),
          err |-> MakeValidDiagnostic]
    ELSE [out |-> Return(IF valid \/ geometry.name \notin {"POLYGON", "MULTIPOLYGON"}
                         THEN geometry ELSE result),
          err |-> err]

\* the message gdal.GetLastErrorMsg() gives where make_valid reads it
GetLastErrorMsgEarly(errBefore, errAfter) == errBefore

GetLastErrorMsg(errBefore, errAfter) == errAfter

\* the filter of the union loop, as "skip unless"
IsAnyMember(sub_geometry) == TRUE

IsUnioned(sub_geometry) == GetGeometryName(sub_geometry) \in {"MULTIPOLYGON", "POLYGON"}

\* the union loop: the accumulated geometry and the members given to Union, in order
RECURSIVE UnionLoop(_, _, _)
UnionLoop(union_geometry, unions, members) ==
    IF members = <<>> THEN [geometry |-> union_geometry, unions |-> unions]
    ELSE LET sub_geometry == Head(members)
         IN  IF ~IsUnioned(sub_geometry)
             THEN UnionLoop(union_geometry, unions, Tail(members))
             ELSE UnionLoop(Union(union_geometry, sub_geometry),
                            Append(unions, sub_geometry), Tail(members))

\* geometry.py:198-217, after the union loop: the loop's geometry, cast to a
\* MULTIPOLYGON when the input was one and the union is a POLYGON
CastToInputType(geometry_type, union_geometry) ==
    IF geometry_type = "MULTIPOLYGON" /\ GetGeometryName(union_geometry) = "POLYGON"
    THEN AddGeometry(OgrGeometry("MULTIPOLYGON"), union_geometry)
    ELSE union_geometry

\* geometry.py:198-215 on a collection, given what the union loop did
UnionBranch(closed, made, loop) ==
    [geometry |-> closed,
     ret |-> Return(CastToInputType(GetGeometryName(closed), loop.geometry)),
     lib |-> made.out.value, unions |-> loop.unions,
     calls |-> <<"CloseRings", "MakeValid", "GetGeometryName">>, err |-> made.err]

\* geometry.py:195-219, given the closed geometry and what MakeValid did
Repaired(closed, made, err) ==
    IF made.out.kind # "ok"
    THEN [geometry |-> closed, ret |-> made.out, lib |-> NoGeometry, unions |-> <<>>,
          calls |-> <<"CloseRings", "MakeValid">>, err |-> made.err]
    ELSE IF made.out.value = NoGeometry
    THEN [geometry |-> closed,
          ret |-> Raise("RuntimeError", GetLastErrorMsg(err, made.err), NoGeometry),
          lib |-> NoGeometry, unions |-> <<>>,
          calls |-> <<"CloseRings", "MakeValid", "GetLastErrorMsg">>, err |-> made.err]
    ELSE IF GetGeometryName(made.out.value) = "GEOMETRYCOLLECTION"
    THEN UnionBranch(closed, made,
                     UnionLoop(OgrGeometry(IF GetGeometryName(closed) = "MULTIPOLYGON"
                                           THEN "MULTIPOLYGON" ELSE "POLYGON"),
                               <<>>, made.out.value.subs))
    ELSE [geometry |-> closed, ret |-> Return(made.out.value),
          lib |-> made.out.value, unions |-> <<>>,
          calls |-> <<"CloseRings", "MakeValid", "GetGeometryName">>, err |-> made.err]

\* geometry.py:194-219, given the geometry with its rings closed in place
RepairClosed(closed, valid, result, failed, err, exceptions) ==
    Repaired(closed, MakeValid(closed, valid, result, failed, err, exceptions), err)

\* make_valid: the caller's object afterwards, the outcome, the library's repair,
\* the members unioned, the library calls made up to the outcome's cause, and the
\* last error afterwards.
make_valid(geometry, valid, result, failed, err, exceptions) ==
    IF geometry = NoGeometry
    THEN [geometry |-> geometry,
          ret |-> Raise("AttributeError", "'NoneType' object has no attribute 'CloseRings'",
                        NoGeometry),
          lib |-> NoGeometry, unions |-> <<>>, calls |-> <<>>, err |-> err]
    ELSE RepairClosed(CloseRings(geometry), valid, result, failed, err, exceptions)

\* geometry.py:188, given the built geometry and what make_valid did
Serialized(gdal_geometry, r, precision) ==
    [built |-> gdal_geometry.value, made |-> TRUE,
     out |-> IF r.ret.kind # "ok"
             THEN Raise(r.ret.kind, r.ret.msg, NoGeoJson)
             ELSE Convert(InitPrecision(precision), r.ret.value),
     ret |-> r.ret, lib |-> r.lib, unions |-> r.unions, calls |-> r.calls,
     err |-> r.err]

\* geometry.py:187-188, given what the builder did
RepairBuilt(gdal_geometry, precision, valid, result, failed, err, exceptions) ==
    IF gdal_geometry.kind # "ok"
    THEN [built |-> NoGeometry, made |-> FALSE,
          out |-> Raise(gdal_geometry.kind, gdal_geometry.msg, NoGeoJson),
          ret |-> Raise(gdal_geometry.kind, gdal_geometry.msg, NoGeometry),
          lib |-> NoGeometry, unions |-> <<>>, calls |-> <<>>, err |-> err]
    ELSE Serialized(gdal_geometry,
                    make_valid(gdal_geometry.value, valid, result, failed, err, exceptions),
                    precision)

\* make_valid_geojson: the GeoJSON outcome, with what make_valid did on the way
make_valid_geojson(geometry, precision, valid, result, failed, err, exceptions) ==
    RepairBuilt(Create(TRUE, geometry, FALSE, exceptions), precision, valid, result,
                failed, err, exceptions)

\* the geometries callers repair: closed and open rings, one and several parts,
\* and types with nothing to repair or to build
RepairInputs ==
    LET p == <<25, 75>>
        q == Neighbour(p)
    IN  << GeoJson("Polygon", <<RingOf(p, q)>>),
           GeoJson("Polygon", <<OpenRingOf(p, q)>>),
           GeoJson("MultiPolygon", << <<RingOf(p, q)>>, <<OpenRingOf(q, p)>> >>),
           GeoJson("Point", p),
           GeoJson("Circle", p) >>

NoMv ==
    [step |-> "none", op |-> "", input |-> NoGeometry, made |-> FALSE,
     result |-> NoGeometry, failed |-> FALSE, exceptions |-> FALSE, errBefore |-> "",
     ret |-> [kind |-> "none", msg |-> ""], retGeom |-> NoGeometry, unions |-> <<>>,
     calls |-> <<>>, out |-> NoOutcome]

\* srs_from_epsg(epsg) on its own: an unknown code leaves the library's last error set
CallSrsFromEpsg ==
    /\ mv.step = "none"
    /\ \E epsg \in EpsgCodes :
        LET r == srs_from_epsg(<<>>, epsg, useExceptions)
        IN  /\ r.err # ""
            /\ lastErrorMsg' = r.err
    /\ UNCHANGED <<useExceptions, geom, gj, ctLog, tr, mv, un, md, chk, res>>

\* what a make_valid or make_valid_geojson call leaves behind
AfterRepair(op, r, input, made, failed, out) ==
    /\ mv' = [NoMv EXCEPT !.step = "called", !.op = op, !.input = input, !.made = made,
                          !.result = r.lib, !.failed = failed,
                          !.exceptions = useExceptions, !.errBefore = lastErrorMsg,
                          !.ret = [kind |-> r.ret.kind, msg |-> r.ret.msg],
                          !.retGeom = r.ret.value, !.unions = r.unions,
                          !.calls = r.calls, !.out = out]
    /\ lastErrorMsg' = r.err

\* the caller's object after make_valid
AfterMakeValid(built, r, failed) ==
    /\ built.kind = "ok"
    /\ geom' = r.geometry
    /\ AfterRepair("make_valid", r, built.value, TRUE, failed, NoOutcome)

\* make_valid(geometry) on a geometry the caller built and keeps
BuiltThenMakeValid(built, valid, result, failed) ==
    AfterMakeValid(built,
                   make_valid(built.value, valid, result, failed, lastErrorMsg,
                              useExceptions),
                   failed)

CallMakeValid ==
    /\ mv.step = "none"
    /\ \E k \in 1 .. Len(RepairInputs), o \in LibraryOutcomes :
        BuiltThenMakeValid(Create(FALSE, RepairInputs[k], FALSE, useExceptions),
                           o.valid, o.result, o.failed)
    /\ UNCHANGED <<useExceptions, gj, ctLog, tr, un, md, chk, res>>

AfterMakeValidGeojson(r, failed) ==
    AfterRepair("make_valid_geojson", r, r.built, r.made, failed, r.out)

\* make_valid_geojson(geometry, precision)
CallMakeValidGeojson ==
    /\ mv.step = "none"
    /\ \E k \in 1 .. Len(RepairInputs), o \in LibraryOutcomes,
          precision \in {NoPrecision, 1} :
        AfterMakeValidGeojson(
            make_valid_geojson(RepairInputs[k], precision, o.valid, o.result, o.failed,
                               lastErrorMsg, useExceptions),
            o.failed)
    /\ UNCHANGED <<useExceptions, geom, gj, ctLog, tr, un, md, chk, res>>

NextRepair ==
    \/ UseExceptions
    \/ CallSrsFromEpsg
    \/ CallMakeValid
    \/ CallMakeValidGeojson

(***************************************************************************)
(* RasterDataset.union (spec 4.6; gdal_boots/gdal.py is not among the      *)
(* sources, tests/test_raster.py:629-646 calls it).  A dataset is its      *)
(* affine origin (x0, y0), the top-left corner, and its rows of pixels,    *)
(* top row first; all datasets share the pixel size and are north-up.      *)
(***************************************************************************)
PixelSize == 10

Dataset(x0, y0, px) == [x0 |-> x0, y0 |-> y0, px |-> px]
NoDataset == Dataset(0, 0, <<>>)

Width(ds) == Len(ds.px[1])
Height(ds) == Len(ds.px)

SetMin(S) == CHOOSE m \in S : \A n \in S : m <= n
SetMax(S) == CHOOSE m \in S : \A n \in S : m >= n

\* the computed common origin: the least x0 and the greatest y0
CommonOrigin(all) ==
    [x0 |-> SetMin({all[k].x0 : k \in 1 .. Len(all)}),
     y0 |-> SetMax({all[k].y0 : k \in 1 .. Len(all)})]

\* the pixel offset of a dataset's origin from the common origin
ColOffset(ds, origin) == (ds.x0 - origin.x0) \div PixelSize

RowOffsetFromOwn(ds, origin) == (ds.y0 - origin.y0) \div PixelSize

RowOffset(ds, origin) == (origin.y0 - ds.y0) \div PixelSize

\* the canvas with a dataset's pixels written at its offset
Paste(canvas, ds, origin) ==
    LET row == RowOffset(ds, origin)
        col == ColOffset(ds, origin)
    IN  [r \in DOMAIN canvas |->
            [c \in DOMAIN canvas[r] |->
                IF /\ r - row \in 1 .. Height(ds)
                   /\ c - col \in 1 .. Width(ds)
                THEN ds.px[r - row][c - col]
                ELSE canvas[r][c]]]

RECURSIVE PasteAll(_, _, _)
PasteAll(canvas, all, origin) ==
    IF all = <<>> THEN canvas
    ELSE PasteAll(Paste(canvas, Head(all), origin), Tail(all), origin)

\* self.union(others): a zero canvas over the combined footprint, then self and
\* the others written in list order
union(self, others) ==
    LET all == <<self>> \o others
        origin == CommonOrigin(all)
        width == SetMax({ColOffset(all[k], origin) + Width(all[k]) : k \in 1 .. Len(all)})
        height == SetMax({RowOffset(all[k], origin) + Height(all[k]) : k \in 1 .. Len(all)})
        zeros == [r \in 1 .. height |-> [c \in 1 .. width |-> 0]]
    IN  Dataset(origin.x0, origin.y0, PasteAll(zeros, all, origin))

\* the datasets of test_raster_union and the arrays it expects (ds[:] is the
\* transpose of the array the test writes)
TestDs1 == Dataset(0, 0, << <<1, 4, 7>>, <<2, 5, 8>>, <<3, 6, 9>> >>)
TestDs2 == Dataset(10, 0, << <<4, 7, 1>>, <<5, 8, 2>>, <<6, 9, 3>> >>)
TestDs3 == Dataset(0, 10, << <<3, 6, 9>>, <<1, 4, 7>>, <<2, 5, 8>> >>)
TestUnion12 == << <<1, 4, 7, 1>>, <<2, 5, 8, 2>>, <<3, 6, 9, 3>> >>
TestUnion123 == << <<3, 6, 9, 0>>, <<1, 4, 7, 1>>, <<2, 5, 8, 2>>, <<3, 6, 9, 3>> >>

\* the dataset in slot k of a call, over the columns col .. col + w - 1 and the
\* rows below the top edge; every pixel tells its slot, row and column
SlotDataset(k, col, top, w, h) ==
    Dataset(col * PixelSize, top * PixelSize,
            [r \in 1 .. h |-> [c \in 1 .. w |-> 100 * k + 10 * r + c]])

\* the rectangles a dataset can occupy: <<col, top, w, h>>
Rects ==
    {<<col, top, w, h>> \in (0 .. MaxExtent) \X (1 .. MaxExtent + 1)
                            \X (1 .. MaxExtent + 1) \X (1 .. MaxExtent + 1) :
        col + w <= MaxExtent + 1 /\ h <= top}

\* the lists of others the test unites with: one dataset, two datasets
ListLengths == {1, 2}

NoUn == [step |-> "none", self |-> NoDataset, others |-> <<>>, out |-> NoDataset]

\* ds = self.union(others) on datasets of one CRS and pixel size, pixel-aligned
CallUnion ==
    /\ un.step = "none"
    /\ \E n \in ListLengths, a \in Rects : \E b \in [1 .. n -> Rects] :
        LET self == SlotDataset(1, a[1], a[2], a[3], a[4])
            others == [k \in 1 .. n |-> SlotDataset(k + 1, b[k][1], b[k][2], b[k][3], b[k][4])]
        IN  un' = [step |-> "called", self |-> self, others |-> others,
                   out |-> union(self, others)]
    /\ UNCHANGED <<useExceptions, lastErrorMsg, geom, gj, ctLog, tr, mv, md, chk, res>>

\* the two calls of test_raster_union
CallUnionOfTest ==
    /\ un.step = "none"
    /\ \E others \in {<<TestDs2>>, <<TestDs2, TestDs3>>} :
        un' = [step |-> "called", self |-> TestDs1, others |-> others,
               out |-> union(TestDs1, others)]
    /\ UNCHANGED <<useExceptions, lastErrorMsg, geom, gj, ctLog, tr, mv, md, chk, res>>

NextUnion == CallUnion \/ CallUnionOfTest

(***************************************************************************)
(* RasterDataset.meta (gdal_boots/gdal.py), as tests/test_raster.py:564-626 *)
(* exercises it: the metadata is replaced as a whole mapping, the mapping  *)
(* the getter returns is read-only, and saving writes each value as text.  *)
(***************************************************************************)
\* a metadata value: its Python type and the characters of its literal
Value(kind, text) == [kind |-> kind, text |-> text]

\* meta = {}
EmptyMeta == [k \in {} |-> Value("str", <<>>)]

\* a | b on mappings: the right operand wins
Merge(a, b) == [k \in DOMAIN a \cup DOMAIN b |-> IF k \in DOMAIN b THEN b[k] ELSE a[k]]

\* ds.meta[k] = v accepted for strings only
SetItemOfStr(stored, k, v) ==
    IF v.kind = "str"
    THEN [raised |-> "", meta |-> Merge(stored, [j \in {k} |-> v])]
    ELSE [raised |-> "TypeError", meta |-> stored]

\* ds.meta[k] = v: the mapping the getter returns takes no item assignment
SetItem(stored, k, v) == [raised |-> "TypeError", meta |-> stored]

\* ds.meta = value: the mapping is taken as it is, numbers included
SetMeta(stored, value) == [raised |-> "", meta |-> value]

\* the text one value is saved as into the file's metadata domain
Encode(v) == IF v.kind = "str" THEN <<"\"">> \o v.text \o <<"\"">> ELSE v.text

\* the value read back from its text
Decode(chars) ==
    IF chars # <<>> /\ Head(chars) = "\""
    THEN Value("str", SubSeq(chars, 2, Len(chars) - 1))
    ELSE IF \E i \in 1 .. Len(chars) : chars[i] = "."
         THEN Value("float", chars)
         ELSE Value("int", chars)

\* ds.to_file(name, driver) and ds.to_bytes(driver): the items a driver stores
Dump(meta, driver) == [driver |-> driver, items |-> [k \in DOMAIN meta |-> Encode(meta[k])]]

\* RasterDataset.open(name).meta and RasterDataset.from_bytes(data).meta
Load(stored) == [k \in DOMAIN stored.items |-> Decode(stored.items[k])]

\* the keys and values metadata is made of: the test's 1, 1.4 and a string,
\* and the string "1" beside the number 1
MetaKeys == {"one", "test1"}
MetaValues ==
    {Value("int", <<"1">>), Value("float", <<"1", ".", "4">>),
     Value("str", <<"s">>), Value("str", <<"1">>)}
Mappings == UNION {[ks -> MetaValues] : ks \in SUBSET MetaKeys}
Drivers == {"jp2", "tiff"}
Routes == {"file", "bytes_file", "bytes"}

NoMd ==
    [op |-> "none", meta |-> EmptyMeta, before |-> EmptyMeta, arg |-> EmptyMeta,
     raised |-> "", loaded |-> EmptyMeta, driver |-> "", route |-> ""]

AfterMeta(op, arg, done) ==
    md' = [op |-> op, meta |-> done.meta, before |-> md.meta, arg |-> arg,
           raised |-> done.raised, loaded |-> md.loaded, driver |-> "", route |-> ""]

\* ds.meta = meta
AssignMeta ==
    /\ \E value \in Mappings : AfterMeta("assign", value, SetMeta(md.meta, value))
    /\ UNCHANGED <<useExceptions, lastErrorMsg, geom, gj, ctLog, tr, mv, un, chk, res>>

\* ds.meta |= update, or ds_meta = dict(ds.meta); ds_meta.update(update); ds.meta = ds_meta
MergeMeta ==
    /\ \E update \in Mappings :
        AfterMeta("merge", update, SetMeta(md.meta, Merge(md.meta, update)))
    /\ UNCHANGED <<useExceptions, lastErrorMsg, geom, gj, ctLog, tr, mv, un, chk, res>>

\* ds.meta[k] = v
AssignItem ==
    /\ \E k \in MetaKeys, v \in MetaValues :
        AfterMeta("item", [j \in {k} |-> v], SetItem(md.meta, k, v))
    /\ UNCHANGED <<useExceptions, lastErrorMsg, geom, gj, ctLog, tr, mv, un, chk, res>>

\* check_meta: ds -> file -> ds, ds -> bytes -> file -> ds, ds -> bytes -> ds
SaveLoad ==
    /\ \E driver \in Drivers, route \in Routes :
        md' = [md EXCEPT !.op = "save_load", !.before = md.meta, !.arg = EmptyMeta,
                         !.raised = "", !.loaded = Load(Dump(md.meta, driver)),
                         !.driver = driver, !.route = route]
    /\ UNCHANGED <<useExceptions, lastErrorMsg, geom, gj, ctLog, tr, mv, un, chk, res>>

NextMeta == AssignMeta \/ MergeMeta \/ AssignItem \/ SaveLoad

(***************************************************************************)
(* check_maximum_one_value_not_none (gdal_boots/gdal.py), as               *)
(* tests/test_util.py:6-27 calls it.                                       *)
(***************************************************************************)
\* Python values by their literal
None == "None"

\* bool(v): None, 0, {} and [] are falsy
IsTruthy(v) == v \notin {None, "0", "{}", "[]"}

\* v is not None
IsNotNone(v) == v # None

RECURSIVE CountNotNone(_)
CountNotNone(values) ==
    IF values = <<>> THEN 0
    ELSE (IF IsNotNone(Head(values)) THEN 1 ELSE 0) + CountNotNone(Tail(values))

check_maximum_one_value_not_none(values) == CountNotNone(values) <= 1

\* the parametrized cases of the test: <<values, expected_result>>
TestCases ==
    { << <<>>, TRUE >>,
      << <<"1">>, TRUE >>,
      << <<None>>, TRUE >>,
      << <<None, "1">>, TRUE >>,
      << <<"1", None>>, TRUE >>,
      << <<"0", None>>, TRUE >>,
      << <<None, None>>, TRUE >>,
      << <<"0", "0">>, FALSE >>,
      << <<"{}", "0">>, FALSE >>,
      << <<"{}", None>>, TRUE >>,
      << <<"{}", "[]">>, FALSE >>,
      << <<"10", "[]", None>>, FALSE >>,
      << <<"10", None, None>>, TRUE >>,
      << <<None, "10", None, None>>, TRUE >>,
      << <<None, "10", None, "5">>, FALSE >> }

\* the arguments passed: None, the falsy 0, {} and [], and a truthy number
ArgValues == {None, "0", "{}", "[]", "10"}
ArgLists == UNION {[1 .. n -> ArgValues] : n \in 0 .. MaxArgs}

NoChk == [step |-> "none", values |-> <<>>, ret |-> FALSE, tested |-> FALSE, expected |-> FALSE]

\* check_maximum_one_value_not_none(*values)
CallCheck ==
    /\ chk.step = "none"
    /\ \E values \in ArgLists :
        chk' = [step |-> "called", values |-> values,
                ret |-> check_maximum_one_value_not_none(values),
                tested |-> FALSE, expected |-> FALSE]
    /\ UNCHANGED <<useExceptions, lastErrorMsg, geom, gj, ctLog, tr, mv, un, md, res>>

\* test_check_maximum_one_variable_not_none(values, expected_result)
CallCheckOfTest ==
    /\ chk.step = "none"
    /\ \E case \in TestCases :
        chk' = [step |-> "called", values |-> case[1],
                ret |-> check_maximum_one_value_not_none(case[1]),
                tested |-> TRUE, expected |-> case[2]]
    /\ UNCHANGED <<useExceptions, lastErrorMsg, geom, gj, ctLog, tr, mv, un, md, res>>

NextUtil == CallCheck \/ CallCheckOfTest

(***************************************************************************)
(* calc_best_resolution_bbox (geometry.py:222-233).                        *)
(***************************************************************************)
EpsDen == 100000000     \* 10e-9 = 1 / 10^8

EpsilonNone == [n |-> 0, d |-> 1]

EpsilonHalf == [n |-> 1, d |-> 2]

Epsilon == [n |-> 1, d |-> EpsDen]

NoCells == <<0, 0>>
NoResolution == <<RatInt(0), RatInt(0)>>

\* cells = max(1, round(span / orig + 10e-9)); the caller has excluded orig = 0.
CellsNoFloor(span, orig) == PyRound(RatAdd(RatDiv(RatInt(span), orig), Epsilon))

Cells(span, orig) == PyMax(1, PyRound(RatAdd(RatDiv(RatInt(span), orig), Epsilon)))

\* The whole function: a division by a zero resolution raises ZeroDivisionError
\* (x first, then y); otherwise the pair (dx / cells_x, dy / cells_y).
CalcBestResolutionBbox(x_min, x_max, y_min, y_max, orig_resolution) ==
    LET dx == x_max - x_min
        dy == y_max - y_min
    IN  IF orig_resolution[1].n = 0 \/ orig_resolution[2].n = 0
        THEN [kind |-> "ZeroDivisionError", cells |-> NoCells, value |-> NoResolution]
        ELSE LET cells_x == Cells(dx, orig_resolution[1])
                 cells_y == Cells(dy, orig_resolution[2])
             IN  IF cells_x = 0 \/ cells_y = 0
                 THEN [kind |-> "ZeroDivisionError", cells |-> <<cells_x, cells_y>>,
                       value |-> NoResolution]
                 ELSE [kind |-> "ok", cells |-> <<cells_x, cells_y>>,
                       value |-> <<Rat(dx, cells_x), Rat(dy, cells_y)>>]

Coords == 0 .. MaxCoord
MinCoords == 0 .. 1
Resolutions == {Rat(n, d) : n \in (-MaxResNum) .. MaxResNum, d \in 1 .. MaxResDen}

NoRes ==
    [step |-> "none", bbox |-> <<0, 0, 0, 0>>, orig |-> NoResolution,
     ret |-> [kind |-> "none", cells |-> NoCells, value |-> NoResolution],
     first |-> [kind |-> "none", cells |-> NoCells, value |-> NoResolution],
     firstOrig |-> NoResolution]

\* A caller computes the best resolution of a bounding box.  The function is pure
\* and the record is overwritten whole, so one call per behaviour reaches every
\* state a later call could.
CallCalcBestResolutionBbox ==
    /\ res.step = "none"
    /\ \E x_min \in MinCoords, x_max \in Coords, y_min \in MinCoords, y_max \in Coords,
          rx \in Resolutions, ry \in Resolutions :
        LET out == CalcBestResolutionBbox(x_min, x_max, y_min, y_max, <<rx, ry>>)
        IN  res' = [step |-> "once", bbox |-> <<x_min, x_max, y_min, y_max>>,
                    orig |-> <<rx, ry>>, ret |-> out, first |-> out,
                    firstOrig |-> <<rx, ry>>]
    /\ UNCHANGED <<useExceptions, lastErrorMsg, geom, gj, ctLog, tr, mv, un, md, chk>>

\* The caller feeds the returned resolution back in with the same bounding box
\* (a re-warp of the same data at the resolution the first warp produced).
RecallCalcBestResolutionBbox ==
    /\ res.step = "once"
    /\ res.ret.kind = "ok"
    /\ LET b == res.bbox
           out == CalcBestResolutionBbox(b[1], b[2], b[3], b[4], res.ret.value)
       IN  res' = [res EXCEPT !.step = "again", !.orig = res.ret.value, !.ret = out]
    /\ UNCHANGED <<useExceptions, lastErrorMsg, geom, gj, ctLog, tr, mv, un, md, chk>>

Init ==
    /\ useExceptions = FALSE
    /\ geom = NoGeometry
    /\ lastErrorMsg = ""
    /\ gj = NoGj
    /\ ctLog = {}
    /\ tr = NoTr
    /\ mv = NoMv
    /\ un = NoUn
    /\ md = NoMd
    /\ chk = NoChk
    /\ res = NoRes

NextRes == CallCalcBestResolutionBbox \/ RecallCalcBestResolutionBbox

SpecRes == Init /\ [][NextRes]_vars

SpecGeoJson == Init /\ [][NextGeoJson]_vars

SpecTransform == Init /\ [][NextTransform]_vars

SpecRepair == Init /\ [][NextRepair]_vars

SpecUnion == Init /\ [][NextUnion]_vars

SpecMeta == Init /\ [][NextMeta]_vars

SpecUtil == Init /\ [][NextUtil]_vars

Next ==
    NextGeoJson \/ NextTransform \/ NextRepair \/ NextUnion \/ NextMeta \/ NextUtil \/ NextRes

Spec == Init /\ [][Next]_vars

(***************************************************************************)
(* Claims about the builder and the serializer.                            *)
(***************************************************************************)
GeoJsonTypes ==
    {"point", "linestring", "polygon", "multilinestring", "multipolygon",
     "geometrycollection"}

\* every type tag of g, nested ones included, is one of the six GeoJSON types
RECURSIVE AllSupported(_)
AllSupported(g) ==
    /\ Lower(g.type) \in GeoJsonTypes
    /\ \A i \in 1 .. Len(g.geometries) : AllSupported(g.geometries[i])

\* g with every coordinate rounded to ndigits decimals
RECURSIVE RoundNested(_, _, _)
RoundNested(c, depth, ndigits) ==
    LET RoundC(x) == PyRoundDigits(x, ndigits)
        Deeper(x) == RoundNested(x, depth - 1, ndigits)
    IN  IF depth = 0 THEN MapSeq(RoundC, c) ELSE MapSeq(Deeper, c)

RECURSIVE RoundGeoJson(_, _)
RoundGeoJson(g, ndigits) ==
    LET t == Lower(g.type)
        depth == CASE t = "point" -> 0
                   [] t = "linestring" -> 1
                   [] t \in {"polygon", "multilinestring"} -> 2
                   [] OTHER -> 3
        Member(m) == RoundGeoJson(m, ndigits)
    IN  IF t = "geometrycollection"
        THEN GeoJsonCollection(MapSeq(Member, g.geometries))
        ELSE GeoJson(g.type, RoundNested(g.coordinates, depth, ndigits))

\* C1 (as claimed): for every input of the six types (collections nesting them
\* included) built from a mapping with flatten=False, GeometryGeoJson.convert
\* succeeds and returns the input with its coordinates rounded to the precision.
C1_RoundTrip ==
    (/\ gj.step = "converted" /\ gj.op = "convert"
     /\ ~gj.isStr /\ ~gj.flatten
     /\ AllSupported(gj.input)
     /\ gj.before = CreateMapping(FALSE, gj.input).value) =>
        /\ gj.out.kind = "ok"
        /\ gj.out.value.type = gj.input.type
        /\ gj.out.value = RoundGeoJson(gj.input, InitPrecision(gj.precision))

\* C2 (as claimed): a mapping whose type has no create_* handler makes create raise
\* ValueError naming the lower-cased type and return no geometry; a geometry whose
\* name has no convert_* handler makes convert raise the same; and every type name
\* outside the six GeoJSON types is rejected by the builder.
C2_Unsupported ==
    /\ (gj.step # "none" /\ ~gj.isStr /\ Lower(gj.input.type) \notin BuilderHandlers) =>
        /\ gj.built = [kind |-> "ValueError",
                       msg |-> Lower(gj.input.type) \o " is not supported"]
        /\ geom = NoGeometry
    /\ (/\ gj.step = "converted" /\ gj.before # NoGeometry
        /\ Lower(gj.before.name) \notin SerializerHandlers) =>
        /\ gj.out.kind = "ValueError"
        /\ gj.out.msg = Lower(gj.before.name) \o " is not supported"
        /\ gj.out.value = NoGeoJson
    /\ (gj.step # "none" /\ ~gj.isStr /\ Lower(gj.input.type) \notin GeoJsonTypes) =>
        gj.built.kind = "ValueError"

\* what the serializer was given: the caller's object, flattened first by to_geojson
Serialized_Geometry ==
    IF gj.op = "to_geojson" /\ gj.opFlatten THEN FlattenTo2D(gj.before) ELSE gj.before

\* C11 (as claimed): every coordinate convert or to_geojson emits is the geometry's
\* coordinate rounded to the precision the caller passed, 0 included; 15 digits
\* are used only when the caller passed none.
C11_Precision ==
    (gj.step = "converted" /\ gj.out.kind = "ok") =>
        LET configured == IF gj.precision = NoPrecision THEN DefaultPrecision
                          ELSE gj.precision
            exact == Convert(DefaultPrecision, Serialized_Geometry).value
        IN  gj.out.value = RoundGeoJson(exact, configured)

\* the points of an OGR geometry, at every depth
RECURSIVE PointsOf(_)
PointsOf(geometry) ==
    {geometry.pts[n] : n \in 1 .. Len(geometry.pts)}
    \cup UNION {PointsOf(geometry.subs[n]) : n \in 1 .. Len(geometry.subs)}

\* the points a GeoJSON input supplies, at every depth
RECURSIVE SuppliedPoints(_)
SuppliedPoints(g) ==
    LET t == Lower(g.type)
        c == g.coordinates
        Elems(s) == {s[n] : n \in 1 .. Len(s)}
    IN  CASE t = "point" -> {c}
          [] t \in {"linestring", "linearring", "multipoint"} -> Elems(c)
          [] t \in {"polygon", "multilinestring"} -> UNION {Elems(r) : r \in Elems(c)}
          [] t = "multipolygon" ->
                UNION {UNION {Elems(r) : r \in Elems(poly)} : poly \in Elems(c)}
          [] t = "geometrycollection" ->
                UNION {SuppliedPoints(m) : m \in Elems(g.geometries)}
          [] OTHER -> {}

\* C12 (as claimed): with flatten enabled every point of the geometry create
\* returns has exactly two components, the first two supplied, at every depth and
\* for a mapping and a string alike; with flatten disabled every supplied
\* component of every point is kept.
C12_Flatten ==
    (gj.step = "built" /\ gj.built.kind = "ok" /\ geom # NoGeometry) =>
        IF gj.flatten
        THEN \A p \in PointsOf(geom) :
                /\ Len(p) = 2
                /\ \E q \in SuppliedPoints(gj.input) : p = SubSeq(q, 1, 2)
        ELSE \A q \in SuppliedPoints(gj.input) :
                \E p \in PointsOf(geom) : Len(p) >= Len(q) /\ SubSeq(p, 1, Len(q)) = q

\* C18 (as claimed): after to_geojson, with flatten or without, the caller's
\* geometry has the coordinates and the dimension it had before the call.
C18_ToGeojsonKeepsInput ==
    (gj.step = "converted" /\ gj.op = "to_geojson") => geom = gj.before

(***************************************************************************)
(* Claims about the coordinate transformer.                                *)
(***************************************************************************)
\* the addresses of the objects the caller passed in
CallerAddresses == {1, 2, 3}

\* C3: after any transform_by_srs or transform call (returned or raised) the caller's
\* geometry and both caller-supplied spatial references, axis-mapping strategy
\* included, are as before the call, and a returned geometry is another object
\* than any the caller passed.
C3_InputsUnchanged ==
    (tr.step = "called" /\ tr.op \in {"transform_by_srs", "transform"}) =>
        /\ geom = tr.geomBefore
        /\ tr.fromAfter = tr.fromBefore
        /\ tr.toAfter = tr.toBefore
        /\ tr.ret.kind = "ok" => tr.retAddr \notin CallerAddresses

\* C3 witness: a transform_by_srs call on references in the authority's axis order
\* returned a geometry whose coordinates differ from the caller's.
C3_Witness ==
    /\ tr.step = "called" /\ tr.op = "transform_by_srs"
    /\ tr.fromBefore = [epsg |-> 4326, strategy |-> OAMS_AUTHORITY_COMPLIANT]
    /\ tr.toBefore = [epsg |-> 3857, strategy |-> OAMS_AUTHORITY_COMPLIANT]
    /\ tr.ret.kind = "ok"
    /\ tr.retGeom # geom
    /\ tr.retGeom.name = "POLYGON"

\* C4: every coordinate transformation constructed, by whichever entry point and
\* from references however obtained, was built from a source and a target both set
\* to the traditional GIS axis order.
C4_AxisOrder ==
    \A ct \in ctLog :
        /\ ct.src.strategy = OAMS_TRADITIONAL_GIS_ORDER
        /\ ct.dst.strategy = OAMS_TRADITIONAL_GIS_ORDER

\* C4 witness: a transformation was constructed for a GeometryProxy whose own
\* reference the caller supplied in the authority's order and whose target came
\* from an EPSG code (srs_from_epsg leaves the authority's order).
C4_Witness ==
    /\ tr.step = "called" /\ tr.op = "GeometryProxy.transform"
    /\ tr.fromBefore = [epsg |-> 4326, strategy |-> OAMS_AUTHORITY_COMPLIANT]
    /\ tr.toEpsg = 3857
    /\ tr.ret.kind = "ok"
    /\ \E ct \in tr.cts : ct.valid /\ ct.src.epsg = 4326 /\ ct.dst.epsg = 3857
    /\ ctLog # {}

\* the call could not construct its transformation: an EPSG code is unknown or a
\* reference holds no CRS
CannotConstruct ==
    \/ tr.op = "transform" /\ (tr.fromEpsg \notin KnownEpsg \/ tr.toEpsg \notin KnownEpsg)
    \/ tr.op = "transform_by_srs"
        /\ (tr.fromBefore.epsg \notin KnownEpsg \/ tr.toBefore.epsg \notin KnownEpsg)

\* C8 (as claimed): when the transformation cannot be constructed, transform and
\* transform_by_srs raise an error whose message is the underlying diagnostic, and
\* return no geometry.
C8_TransformError ==
    (tr.step = "called" /\ CannotConstruct) =>
        /\ tr.ret.kind \notin {"ok", "none"}
        /\ tr.err # ""
        /\ tr.ret.msg = tr.err
        /\ tr.retGeom = NoGeometry

(***************************************************************************)
(* Claims about the validity repairer.                                     *)
(***************************************************************************)
AreaTypes == {"POLYGON", "MULTIPOLYGON"}

\* make_valid ran on an area and returned a geometry
RepairedArea ==
    /\ mv.step = "called" /\ mv.made
    /\ mv.input.name \in AreaTypes
    /\ mv.ret.kind = "ok"

\* C5: make_valid on a Polygon or MultiPolygon never returns a GeometryCollection;
\* when the library's repair is a collection, exactly its Polygon and MultiPolygon
\* members were given to Union, in member order, the other members were dropped,
\* and the returned geometry is a Polygon or MultiPolygon covering what those
\* members cover.
C5_NoRawCollection ==
    RepairedArea =>
        /\ mv.retGeom.name # "GEOMETRYCOLLECTION"
        /\ mv.result.name = "GEOMETRYCOLLECTION" =>
            LET IsArea(g) == g.name \in AreaTypes
                members == mv.result.subs
            IN  /\ mv.retGeom.name \in AreaTypes
                /\ mv.unions = SelectSeq(members, IsArea)
                /\ Footprint(mv.retGeom) =
                       UNION {Footprint(members[n]) : n \in 1 .. Len(members)}

\* C5 witness: the library repaired a Polygon to a collection of a line and an
\* area, and make_valid returned the area alone.
C5_Witness ==
    /\ RepairedArea /\ mv.op = "make_valid"
    /\ mv.input.name = "POLYGON"
    /\ mv.result.name = "GEOMETRYCOLLECTION"
    /\ Len(mv.result.subs) = 2
    /\ mv.result.subs[1].name = "LINESTRING"
    /\ mv.result.subs[2].name = "POLYGON"
    /\ mv.retGeom = mv.result.subs[2]

\* C6 (as claimed): a MultiPolygon given to make_valid comes back as a
\* MultiPolygon, a single repaired Polygon being wrapped into a one-element
\* MultiPolygon, and a Polygon input is never wrapped.
C6_MultiPolygonPreserved ==
    (mv.step = "called" /\ mv.made /\ mv.ret.kind = "ok") =>
        /\ mv.input.name = "MULTIPOLYGON" => mv.retGeom.name = "MULTIPOLYGON"
        /\ mv.input.name = "POLYGON" =>
                ~(mv.retGeom.name = "MULTIPOLYGON" /\ Len(mv.retGeom.subs) = 1)

\* C7: when the library's MakeValid gives no result, make_valid and
\* make_valid_geojson raise an error whose message is the diagnostic MakeValid
\* left, read directly after the MakeValid call, and give back no geometry.
C7_RepairError ==
    (mv.step = "called" /\ mv.made /\ mv.failed) =>
        /\ mv.ret.kind = "RuntimeError"
        /\ mv.ret.msg = MakeValidDiagnostic
        /\ mv.retGeom = NoGeometry
        /\ ~mv.exceptions =>
                mv.calls = <<"CloseRings", "MakeValid", "GetLastErrorMsg">>
        /\ mv.op = "make_valid_geojson" =>
                /\ mv.out.kind = "RuntimeError"
                /\ mv.out.msg = MakeValidDiagnostic
                /\ mv.out.value = NoGeoJson

\* C7 witness: MakeValid returned None while an older error message was still
\* set, and make_valid raised with MakeValid's message.
C7_Witness ==
    /\ mv.step = "called" /\ mv.op = "make_valid" /\ mv.failed
    /\ ~mv.exceptions
    /\ mv.errBefore = ImportDiagnostic
    /\ mv.ret.kind = "RuntimeError"
    /\ mv.ret.msg = MakeValidDiagnostic

\* C17 (as claimed): after make_valid returns or raises, the caller's geometry is
\* as it was before the call, open rings still open.
C17_MakeValidKeepsInput ==
    (mv.step = "called" /\ mv.op = "make_valid") => geom = mv.input

(***************************************************************************)
(* Claims about RasterDataset.union.                                       *)
(***************************************************************************)
\* the datasets of the call, self first
United == <<un.self>> \o un.others

\* the datasets whose footprint holds the pixel with left edge x and top edge y
Covering(x, y) ==
    {k \in 1 .. Len(United) :
        LET d == United[k]
        IN  /\ d.x0 <= x /\ x < d.x0 + Width(d) * PixelSize
            /\ y <= d.y0 /\ y > d.y0 - Height(d) * PixelSize}

\* C13: the united dataset starts at the least x and the greatest y of the origins
\* and spans the combined footprint; each of its pixels is the pixel, at the same
\* place on the ground, of the last dataset of the call covering that place, and
\* 0 where none does; the test's two unions give the arrays the test expects.
C13_Union ==
    un.step = "called" =>
        LET ks == 1 .. Len(United)
            left == SetMin({United[k].x0 : k \in ks})
            top == SetMax({United[k].y0 : k \in ks})
            right == SetMax({United[k].x0 + Width(United[k]) * PixelSize : k \in ks})
            bottom == SetMin({United[k].y0 - Height(United[k]) * PixelSize : k \in ks})
            px == un.out.px
        IN  /\ un.out.x0 = left /\ un.out.y0 = top
            /\ Len(px) * PixelSize = top - bottom
            /\ \A r \in 1 .. Len(px) : Len(px[r]) * PixelSize = right - left
            /\ \A r \in 1 .. Len(px) : \A c \in 1 .. Len(px[r]) :
                LET x == left + (c - 1) * PixelSize
                    y == top - (r - 1) * PixelSize
                    last == United[SetMax(Covering(x, y))]
                IN  px[r][c] = IF Covering(x, y) = {} THEN 0
                               ELSE last.px[(last.y0 - y) \div PixelSize + 1]
                                           [(x - last.x0) \div PixelSize + 1]
            /\ (un.self = TestDs1 /\ un.others = <<TestDs2>>) => px = TestUnion12
            /\ (un.self = TestDs1 /\ un.others = <<TestDs2, TestDs3>>) => px = TestUnion123

\* C13 witness: a row, a column and a single pixel that all cover the top-left
\* pixel, which the last one wins, and leave the bottom-right pixel uncovered.
C13_Witness ==
    /\ un.step = "called"
    /\ Len(un.others) = 2
    /\ un.self.px = << <<111, 112>> >>
    /\ un.others[1].px = << <<211>>, <<221>> >>
    /\ un.others[2].px = << <<311>> >>
    /\ un.out.px = << <<311, 112>>, <<221, 0>> >>

(***************************************************************************)
(* Claims about the raster dataset's metadata.                             *)
(***************************************************************************)
\* the values an operation tried to put into the metadata include a non-string
PutsNonString == \E k \in DOMAIN md.arg : md.arg[k].kind # "str"

Reordered(values, p) == [i \in 1 .. Len(values) |-> values[p[i]]]

\* C15: the check returns True exactly when at most one argument is not None,
\* for every list of arguments, the empty one included; 0, {} and [] count as
\* not None; the arguments in any other order give the same result; and the
\* result is the one the test expects for each of its cases.
C15_AtMostOneNotNone ==
    chk.step = "called" =>
        /\ chk.ret = (Cardinality({i \in 1 .. Len(chk.values) : chk.values[i] # None}) <= 1)
        /\ \A p \in Permutations(1 .. Len(chk.values)) :
            check_maximum_one_value_not_none(Reordered(chk.values, p)) = chk.ret
        /\ chk.tested => chk.ret = chk.expected

\* C15 witness: two falsy values that are not None are one too many
C15_Witness ==
    /\ chk.step = "called"
    /\ chk.values = <<"{}", "0">>
    /\ chk.ret = FALSE
    /\ chk.tested /\ chk.expected = FALSE

(***************************************************************************)
(* Claims about the resolution calculator.                                 *)
(***************************************************************************)
SpanX(r) == r.bbox[2] - r.bbox[1]
SpanY(r) == r.bbox[4] - r.bbox[3]

\* C9: for every bounding box with a positive span on an axis and every (nonzero,
\* positive or negative) original resolution, the call returns, the cell count used
\* on that axis is an integer >= 1, the returned resolution on that axis equals
\* span / cell_count, and it never exceeds the span.
C9_CellCountFloor ==
    (res.step = "once" /\ res.orig[1].n # 0 /\ res.orig[2].n # 0) =>
        /\ res.ret.kind = "ok"
        /\ SpanX(res) > 0 =>
            /\ res.ret.cells[1] >= 1
            /\ res.ret.value[1] = Rat(SpanX(res), res.ret.cells[1])
            /\ RatLeq(res.ret.value[1], RatInt(SpanX(res)))
        /\ SpanY(res) > 0 =>
            /\ res.ret.cells[2] >= 1
            /\ res.ret.value[2] = Rat(SpanY(res), res.ret.cells[2])
            /\ RatLeq(res.ret.value[2], RatInt(SpanY(res)))

\* C9 witness: a span shorter than half a cell (ratio 1/3 rounds to 0) and a negative
\* resolution on the other axis, both floored to one cell.
C9_Witness ==
    /\ res.step = "once"
    /\ res.ret.kind = "ok"
    /\ SpanX(res) = 1 /\ res.orig[1] = RatInt(3) /\ res.ret.cells[1] = 1
    /\ SpanY(res) = 4 /\ res.orig[2] = RatInt(-1) /\ res.ret.cells[2] = 1

\* C10: for every bounding box with positive spans and every positive original
\* resolution, feeding the result back in returns the same result.
C10_Idempotent ==
    (/\ res.step = "again"
     /\ SpanX(res) > 0 /\ SpanY(res) > 0
     /\ res.firstOrig[1].n > 0 /\ res.firstOrig[2].n > 0) =>
        /\ res.ret.kind = "ok"
        /\ res.ret.value = res.first.value

\* C10 witness: a second call whose input resolution differs from the first call's
\* (the first call changed it) and whose cell counts are odd and even.
C10_Witness ==
    /\ res.step = "again"
    /\ SpanX(res) = 5 /\ SpanY(res) = 6
    /\ res.firstOrig = <<RatInt(2), Rat(3, 2)>>
    /\ res.first.cells = <<3, 4>>
    /\ res.ret.kind = "ok"
    /\ res.ret.value = <<Rat(5, 3), Rat(3, 2)>>
    /\ res.orig # res.firstOrig

\* the ratio span / orig = a / b lies within half a cell of n: n - 0.5 <= a / b and
\* a / b < n + 0.5 - 1e-8, that is b(2n + 1) - 2a > 2b / 10^8
WithinHalfCell(span, orig, n) ==
    LET ratio == RatDiv(RatInt(span), orig)
        gap == ratio.d * (2 * n + 1) - 2 * ratio.n
    IN  /\ (2 * n - 1) * ratio.d <= 2 * ratio.n
        /\ gap > 0
        /\ EpsDen > (2 * ratio.d) \div gap

\* the largest cell count a call of the model can give
MaxCells == MaxCoord * MaxResDen + 1

====
